---- MODULE Spec2Model ----
(***************************************************************************)
(* Model of the paperframe client (src/paperframe.go): run with its        *)
(* one-shot commands and its "service" command (the startup sequence, the  *)
(* ticker goroutine, the signal goroutine and the channels between them),  *)
(* and the panel command sequences issued through displayImage /           *)
(* displayClear.  Two further specifications look inside the driver       *)
(* (src/epd7in5v2/epd7in5v2.go): SpecEpd at the idle waits of one command  *)
(* sequence, SpecConv at Convert as a function of the panel size and the   *)
(* source image.                                                           *)
(*                                                                         *)
(* Time is counted in ticker periods (time.Minute).  Every clock reading   *)
(* (time.Now) yields the current value of `now`.  lastUpdated is written   *)
(* by two goroutines without synchronisation; at the resolution of this    *)
(* model a racing read observes the old or the new stamp, which the        *)
(* interleaving of the read and write steps produces.                      *)
(***************************************************************************)
EXTENDS Integers, Sequences, FiniteSets, TLC

\* ---------------------------------------------------------------- bounds
MaxTime == 95           \* the clock stops advancing here
MaxLag == 0             \* minutes the clock may run on after a check minute
                        \* while a goroutine still has work to do (a handler
                        \* normally ends within the minute of its tick)
MaxSignals == 1         \* termination signals sent to the process
MaxPolls == 3           \* polls of the busy line one idle wait may make
MaxWidth == 16          \* widest panel of SpecConv, in pixels
MaxHeight == 2          \* tallest panel of SpecConv, in pixels
MaxTone == 4            \* grey levels of a source pixel: 0 (black) .. MaxTone
                        \* (white)

\* ------------------------------------------------------ program constants
MinutesPerHour == 60    \* time.Duration.Hours / time.Time.Minute
ConnectRetries == 6     \* for i := 0; i <= 6
EPD_WIDTH == 800
EPD_HEIGHT == 480

\* ------------------------------------------------------------ input sets
Ids == {"a", "b"}
FreqChoices == {0, 30}          \* values of api.frequency
ClearChoices == {0, 1}          \* values of clear_after
ArchChoices == {"arm", "amd64"} \* values of runtime.GOARCH
ArgChoices ==                   \* values of os.Args[1:]
  {<<>>, <<"version">>, <<"clear">>, <<"current">>, <<"display">>,
   <<"display", "a">>, <<"display", "">>, <<"service">>, <<"help">>}
Threads == {"main", "ticker", "signal"}
NoTick == -1
Nil == <<>>

VARIABLES
  CHECK_FREQ, CLEAR_AFTER, \* configuration globals
  arch, args,              \* runtime.GOARCH, os.Args[1:]
  epd,                     \* TRUE: handle present, FALSE: nil
  now,                     \* wall clock, minutes
  proc,                    \* "running" | "exited" | "killed" | "panicked"
  exitStatus,
  pc,                      \* control point of each goroutine
  i,                       \* connectivity retry counter
  lastUpdated, currentId,  \* scheduler state
  img,                     \* image local of main / ticker goroutine
  notified,                \* signal.Notify registered
  signals, exit, stopTicker, tickerC,  \* channels (buffer 1)
  tickerOn,                \* time.Ticker running
  currentTime, checkNewId, branch,     \* ticker goroutine locals
  op, at,                  \* panel sequence in progress per goroutine
  panel,                   \* physical panel state
  \* history variables (observations, read by no action's guard)
  sigCount,                \* termination signals that reached the process
  displayedId,             \* id of the image of the last completed displayImage
  tickDisplays, tickClears,\* displayImage / displayClear calls of this tick
  clearsSinceSig,          \* displayClear calls since <-signals returned
  lastClearAt,             \* time of the ticker's previous displayClear call
                           \* while every query has failed (-1: none)
  allFail,                 \* every id query of the ticker has failed so far
  retry,                   \* this tick returned the id whose fetch failed on
                           \* the tick before
  undecoded,               \* the image fetched on this tick failed to decode
  \* the driver seen alone (SpecEpd)
  seq,                     \* command sequence: "display" | "clear"
  method,                  \* driver method in progress, "done" after Sleep
  waitNo,                  \* waitUntilIdle calls of the method that returned
  polls,                   \* busy reads of the current wait that found Low
  busy,                    \* level of the busy line: "Low" (busy) | "High"
  \* Convert seen alone (SpecConv)
  panelW, panelH,          \* EPD_WIDTH, EPD_HEIGHT
  src,                     \* source image: bounds and pixels
  frame,                   \* buffer returned by Convert
  converted,               \* Convert has returned
  cleared                  \* buffer Clear has transmitted (<<>>: none yet)

prog == <<CHECK_FREQ, CLEAR_AFTER, arch, args, epd, now, proc, exitStatus, pc, i,
          lastUpdated, currentId, img, notified, signals, exit, stopTicker,
          tickerC, tickerOn, currentTime, checkNewId, branch, op, at, panel,
          sigCount, displayedId, tickDisplays, tickClears,
          clearsSinceSig, lastClearAt, allFail, retry, undecoded>>
wire == <<seq, method, waitNo, polls, busy>>
conv == <<panelW, panelH, src, frame, converted, cleared>>
bench == <<wire, conv>>
vars == <<prog, bench>>

env == <<CHECK_FREQ, CLEAR_AFTER, arch, args>>
conf == <<env, epd>>
chans == <<signals, exit, stopTicker, tickerC, tickerOn>>
tlocals == <<currentTime, checkNewId, branch>>
drv == <<op, at, panel>>
sched == <<lastUpdated, currentId>>
tickHist == <<tickDisplays, tickClears, lastClearAt, allFail, retry,
              undecoded>>
hist == <<sigCount, displayedId, clearsSinceSig, tickHist>>

\* ------------------------------------------------------------ pure parts

\* Go's % for a non-negative dividend: the sign follows the dividend.
GoRem(a, b) == IF b > 0 THEN a % b ELSE a % (0 - b)

\* time.Time.Minute of a clock reading
Minute(t) == t % MinutesPerHour

\* The stale test with a strict comparison
Stale_Strict(t, last, clearAfter) == (t - last) > clearAfter * MinutesPerHour

\* time.Since(lastUpdated).Hours() >= float64(CLEAR_AFTER)
Stale(t, last, clearAfter) == (t - last) >= clearAfter * MinutesPerHour

\* Outcomes of getCurrentId: (id, err)
IdOutcomes == {[id |-> "", err |-> TRUE]} \cup
              {[id |-> x, err |-> FALSE] : x \in Ids \cup {""}}

\* Outcomes of http.Get + decodeImage on an image path
FetchOutcomes == {"ok", "neterr", "http", "decode"}

\* getImage returning the image without looking at decodeImage's error
getImage_NoDecodeTest(id, lookup, fetch) ==
  IF id = "" /\ lookup.err THEN Nil
  ELSE IF fetch \notin {"ok", "decode"} THEN Nil
  ELSE IF id = "" THEN <<lookup.id>> ELSE <<id>>

\* getImage(id) given the outcome of its inner id lookup and of the fetch:
\* the image (tagged with the id in its path) or nil.
getImage(id, lookup, fetch) ==
  IF id = "" /\ lookup.err THEN Nil
  ELSE IF fetch # "ok" THEN Nil
  ELSE IF id = "" THEN <<lookup.id>> ELSE <<id>>

\* ------------------------------------------------------------- the state

\* The driver-level specifications are not running
WireIdle ==
  /\ seq = "none" /\ method = "none" /\ waitNo = 0 /\ polls = 0
  /\ busy = "High"

ConvIdle ==
  /\ panelW = 0 /\ panelH = 0 /\ src = <<>> /\ frame = <<>>
  /\ converted = FALSE /\ cleared = <<>>

Init ==
  /\ WireIdle /\ ConvIdle
  /\ CHECK_FREQ \in FreqChoices
  /\ CLEAR_AFTER \in ClearChoices
  /\ arch \in ArchChoices
  /\ args \in ArgChoices
  /\ epd = FALSE
  /\ now = 0
  /\ proc = "running"
  /\ exitStatus = -1
  /\ pc = [t \in Threads |-> IF t = "main" THEN "config" ELSE "off"]
  /\ i = 0
  /\ lastUpdated = 0
  /\ currentId = ""
  /\ img = [t \in Threads |-> Nil]
  /\ notified = FALSE
  /\ signals = 0
  /\ exit = <<>>
  /\ stopTicker = 0
  /\ tickerC = NoTick
  /\ tickerOn = FALSE
  /\ currentTime = 0
  /\ checkNewId = ""
  /\ branch = "none"
  /\ op = [t \in Threads |-> "none"]
  /\ at = [t \in Threads |-> 0]
  /\ panel = "Asleep"
  /\ sigCount = 0
  /\ displayedId = ""
  /\ tickDisplays = 0
  /\ tickClears = 0
  /\ clearsSinceSig = 0
  /\ lastClearAt = -1
  /\ allFail = TRUE
  /\ retry = FALSE
  /\ undecoded = FALSE

Running == proc = "running"
sigSeen == sigCount > 0

\* return n from run: main hands the status to os.Exit
ExitWith(n) ==
  /\ proc' = "exited"
  /\ exitStatus' = n
  /\ pc' = [pc EXCEPT !["main"] = "done"]

\* Where a goroutine continues after displayImage / displayClear returns
Return(t, o) ==
  CASE t = "main" -> IF Head(args) = "service" THEN "launch" ELSE "ret"
    [] t = "ticker" /\ o = "display" -> "update"
    [] t = "ticker" /\ o = "clear" -> "restamp"
    [] OTHER -> "stamp"

\* Invoke without the test for a nil handle
Invoke_NoNilTest(t, o, m) ==
  /\ pc' = [pc EXCEPT ![t] = "epd"]
  /\ op' = [op EXCEPT ![t] = o]
  /\ at' = [at EXCEPT ![t] = 0]
  /\ UNCHANGED displayedId
  /\ clearsSinceSig' =
       IF o = "clear" /\ (t = "signal" \/ pc["signal"] \notin {"off", "recv"})
       THEN IF clearsSinceSig < 2 THEN clearsSinceSig + 1 ELSE 2
       ELSE clearsSinceSig

\* Call of displayImage (o = "display", image m) or displayClear
\* (o = "clear") by goroutine t: returns at once on a nil handle, else starts
\* the command sequence Reset, Init, Display | Clear, Sleep.
Invoke(t, o, m) ==
  /\ IF epd
     THEN /\ pc' = [pc EXCEPT ![t] = "epd"]
          /\ op' = [op EXCEPT ![t] = o]
          /\ at' = [at EXCEPT ![t] = 0]
          /\ UNCHANGED displayedId
     ELSE /\ pc' = [pc EXCEPT ![t] = Return(t, o)]
          /\ displayedId' = IF o = "display" THEN m[1] ELSE displayedId
          /\ UNCHANGED <<op, at>>
  /\ clearsSinceSig' =
       IF o = "clear" /\ (t = "signal" \/ pc["signal"] \notin {"off", "recv"})
       THEN IF clearsSinceSig < 2 THEN clearsSinceSig + 1 ELSE 2
       ELSE clearsSinceSig

\* ------------------------------------------------- panel driver (epd7in5v2)

EpdReset(t) ==
  /\ Running /\ pc[t] = "epd" /\ at[t] = 0
  /\ at' = [at EXCEPT ![t] = 1]
  /\ panel' = "Reset"
  /\ UNCHANGED <<conf, bench, now, proc, exitStatus, pc, i, sched, img, notified,
                 chans, tlocals, op, hist>>

EpdInit(t) ==
  /\ Running /\ pc[t] = "epd" /\ at[t] = 1
  /\ at' = [at EXCEPT ![t] = 2]
  /\ panel' = "Idle"
  /\ UNCHANGED <<conf, bench, now, proc, exitStatus, pc, i, sched, img, notified,
                 chans, tlocals, op, hist>>

EpdDisplay(t) ==
  /\ Running /\ pc[t] = "epd" /\ at[t] = 2 /\ op[t] = "display"
  /\ at' = [at EXCEPT ![t] = 3]
  /\ panel' = "Idle"
  /\ UNCHANGED <<conf, bench, now, proc, exitStatus, pc, i, sched, img, notified,
                 chans, tlocals, op, hist>>

EpdClear(t) ==
  /\ Running /\ pc[t] = "epd" /\ at[t] = 2 /\ op[t] = "clear"
  /\ at' = [at EXCEPT ![t] = 3]
  /\ panel' = "Idle"
  /\ UNCHANGED <<conf, bench, now, proc, exitStatus, pc, i, sched, img, notified,
                 chans, tlocals, op, hist>>

\* Sleep is the last call of displayImage / displayClear: the caller resumes.
EpdSleep(t) ==
  /\ Running /\ pc[t] = "epd" /\ at[t] = 3
  /\ at' = [at EXCEPT ![t] = 0]
  /\ op' = [op EXCEPT ![t] = "none"]
  /\ pc' = [pc EXCEPT ![t] = Return(t, op[t])]
  /\ panel' = "Asleep"
  /\ displayedId' = IF op[t] = "display" THEN img[t][1] ELSE displayedId
  /\ UNCHANGED <<conf, bench, now, proc, exitStatus, i, sched, img, notified,
                 chans, tlocals, sigCount, clearsSinceSig, tickHist>>

\* ------------------------------------------- run, up to the command switch

\* viper.ReadInConfig: a missing file means the defaults, any other error
\* is fatal
ReadConfig ==
  /\ Running /\ pc["main"] = "config"
  /\ \E ok \in BOOLEAN :
       IF ok
       THEN /\ pc' = [pc EXCEPT !["main"] = "args"]
            /\ UNCHANGED <<proc, exitStatus>>
       ELSE ExitWith(1)
  /\ UNCHANGED <<conf, bench, now, i, sched, img, notified, chans, tlocals, drv,
                 hist>>

\* if len(os.Args) < 2 { fmt.Print(README); return 1 }
CheckArgs ==
  /\ Running /\ pc["main"] = "args"
  /\ IF Len(args) < 1
     THEN ExitWith(1)
     ELSE /\ pc' = [pc EXCEPT !["main"] = "open"]
          /\ UNCHANGED <<proc, exitStatus>>
  /\ UNCHANGED <<conf, bench, now, i, sched, img, notified, chans, tlocals, drv,
                 hist>>

\* if runtime.GOARCH == "arm" { epd, err = epd7in5v2.New(...);
\*   if err != nil || epd == nil { return 1 } } else the handle stays nil
OpenPanel ==
  /\ Running /\ pc["main"] = "open"
  /\ IF arch = "arm"
     THEN \E ok \in BOOLEAN :
            IF ok
            THEN /\ epd' = TRUE
                 /\ pc' = [pc EXCEPT !["main"] = "dispatch"]
                 /\ UNCHANGED <<proc, exitStatus>>
            ELSE /\ ExitWith(1)
                 /\ UNCHANGED epd
     ELSE /\ pc' = [pc EXCEPT !["main"] = "dispatch"]
          /\ UNCHANGED <<epd, proc, exitStatus>>
  /\ UNCHANGED <<env, bench, now, i, sched, img, notified, chans, tlocals, drv,
                 hist>>

\* switch os.Args[1]
Dispatch ==
  /\ Running /\ pc["main"] = "dispatch"
  /\ CASE Head(args) = "version" ->
            /\ ExitWith(0)
            /\ UNCHANGED <<op, at, displayedId, clearsSinceSig>>
       [] Head(args) = "clear" ->
            /\ Invoke("main", "clear", Nil)
            /\ UNCHANGED <<proc, exitStatus>>
       [] Head(args) = "current" ->
            /\ pc' = [pc EXCEPT !["main"] = "cmdId"]
            /\ UNCHANGED <<proc, exitStatus, op, at, displayedId,
                           clearsSinceSig>>
       [] Head(args) = "display" ->
            /\ IF Len(args) < 2
               THEN ExitWith(1)
               ELSE /\ pc' = [pc EXCEPT !["main"] = "cmdImage"]
                    /\ UNCHANGED <<proc, exitStatus>>
            /\ UNCHANGED <<op, at, displayedId, clearsSinceSig>>
       [] Head(args) = "service" ->
            /\ pc' = [pc EXCEPT !["main"] = "connect"]
            /\ UNCHANGED <<proc, exitStatus, op, at, displayedId,
                           clearsSinceSig>>
       [] OTHER ->
            /\ ExitWith(1)
            /\ UNCHANGED <<op, at, displayedId, clearsSinceSig>>
  /\ UNCHANGED <<conf, bench, now, i, sched, img, notified, chans, tlocals, panel,
                 sigCount, tickHist>>

\* ------------------------------- run, cases "clear", "current", "display"

\* case "current": currentId, err := getCurrentId(); on error return 1
CmdGetId ==
  /\ Running /\ pc["main"] = "cmdId"
  /\ \E r \in IdOutcomes :
       IF r.err
       THEN /\ ExitWith(1)
            /\ UNCHANGED currentId
       ELSE /\ currentId' = r.id
            /\ pc' = [pc EXCEPT !["main"] = "cmdImage"]
            /\ UNCHANGED <<proc, exitStatus>>
  /\ UNCHANGED <<conf, bench, now, i, lastUpdated, img, notified, chans, tlocals,
                 drv, hist>>

\* The id handed to getImage: currentId, or os.Args[2]
CmdId == IF Head(args) = "current" THEN currentId ELSE args[2]

\* image, err := getImage(id); on error return 1; displayImage(image, epd)
CmdGetImage ==
  /\ Running /\ pc["main"] = "cmdImage"
  /\ \E r \in IdOutcomes, f \in FetchOutcomes :
       LET m == getImage(CmdId, r, f) IN
         IF m = Nil
         THEN /\ ExitWith(1)
              /\ UNCHANGED <<img, op, at, displayedId, clearsSinceSig>>
         ELSE /\ img' = [img EXCEPT !["main"] = m]
              /\ Invoke("main", "display", m)
              /\ UNCHANGED <<proc, exitStatus>>
  /\ UNCHANGED <<conf, bench, now, i, sched, notified, chans, tlocals, panel,
                 sigCount, tickHist>>

\* return 0 after displayClear / displayImage
CmdReturn ==
  /\ Running /\ pc["main"] = "ret"
  /\ ExitWith(0)
  /\ UNCHANGED <<conf, bench, now, i, sched, img, notified, chans, tlocals, drv,
                 hist>>

\* ------------------------------------------------- run, case "service"

\* for i := 0; i <= 6; i += 1 { if checkConnected() { break }; Sleep }
CheckConnected ==
  /\ Running /\ pc["main"] = "connect"
  /\ \E ok \in BOOLEAN :
       IF ok
       THEN /\ pc' = [pc EXCEPT !["main"] = "stamp"]
            /\ i' = 0
       ELSE IF i + 1 <= ConnectRetries
       THEN /\ i' = i + 1
            /\ UNCHANGED pc
       ELSE /\ i' = 0         \* the loop is left, i goes out of scope
            /\ pc' = [pc EXCEPT !["main"] = "stamp"]
  /\ UNCHANGED <<conf, bench, now, proc, exitStatus, sched, img, notified, chans,
                 tlocals, drv, hist>>

\* lastUpdated := time.Now()
StartStamp ==
  /\ Running /\ pc["main"] = "stamp"
  /\ lastUpdated' = now
  /\ pc' = [pc EXCEPT !["main"] = "getId"]
  /\ UNCHANGED <<conf, bench, now, proc, exitStatus, i, currentId, img, notified,
                 chans, tlocals, drv, hist>>

\* currentId, err := getCurrentId(); the error is only logged
StartGetId ==
  /\ Running /\ pc["main"] = "getId"
  /\ \E r \in IdOutcomes : currentId' = r.id
  /\ pc' = [pc EXCEPT !["main"] = "getImage"]
  /\ UNCHANGED <<conf, bench, now, proc, exitStatus, i, lastUpdated, img, notified,
                 chans, tlocals, drv, hist>>

\* image, err := getImage(currentId); if image != nil { displayImage(...) }
StartGetImage ==
  /\ Running /\ pc["main"] = "getImage"
  /\ \E r \in IdOutcomes, f \in FetchOutcomes :
       LET m == getImage(currentId, r, f) IN
         /\ img' = [img EXCEPT !["main"] = m]
         /\ IF m # Nil
            THEN Invoke("main", "display", m)
            ELSE /\ pc' = [pc EXCEPT !["main"] = "launch"]
                 /\ UNCHANGED <<op, at, displayedId, clearsSinceSig>>
  /\ UNCHANGED <<conf, bench, now, proc, exitStatus, i, sched, notified, chans,
                 tlocals, panel, sigCount, tickHist>>

\* signal.Notify, the channels, the ticker and the two goroutines
Launch ==
  /\ Running /\ pc["main"] = "launch"
  /\ notified' = TRUE
  /\ tickerOn' = TRUE
  /\ pc' = [pc EXCEPT !["main"] = "waitExit", !["ticker"] = "select",
                      !["signal"] = "recv"]
  /\ img' = [img EXCEPT !["main"] = Nil]    \* not used again
  /\ UNCHANGED <<conf, bench, now, proc, exitStatus, i, sched, signals, exit,
                 stopTicker, tickerC, tlocals, drv, hist>>

\* return <-exit; main hands the status to os.Exit
MainExit ==
  /\ Running /\ pc["main"] = "waitExit" /\ exit # <<>>
  /\ exitStatus' = Head(exit)
  /\ exit' = Tail(exit)
  /\ proc' = "exited"
  /\ pc' = [pc EXCEPT !["main"] = "done"]
  /\ UNCHANGED <<conf, bench, now, i, sched, img, notified, signals, stopTicker,
                 tickerC, tickerOn, tlocals, drv, hist>>

\* ------------------------------------------------------- environment

\* SIGTERM / SIGINT reaches the process.  Before signal.Notify the default
\* disposition ends the process; afterwards the signal is queued in the
\* one-slot channel (dropped when the slot is taken).
Signal ==
  /\ Running /\ sigCount < MaxSignals
  /\ sigCount' = sigCount + 1
  /\ IF notified
     THEN /\ signals' = 1
          /\ UNCHANGED proc
     ELSE /\ proc' = "killed"
          /\ UNCHANGED signals
  /\ UNCHANGED <<conf, bench, now, exitStatus, pc, i, sched, img, notified, exit,
                 stopTicker, tickerC, tickerOn, tlocals, drv, displayedId,
                 clearsSinceSig, tickHist>>

\* No goroutine has anything to do until the next ticker event.
Quiet ==
  /\ pc["ticker"] = "select" /\ tickerC = NoTick /\ stopTicker = 0
  /\ pc["signal"] = "recv" /\ signals = 0

\* Minutes since the last minute on which the handler queries (0 on one);
\* with CHECK_FREQ = 0 every ticker event matters, counted from the start.
SinceCheck(t) == IF CHECK_FREQ = 0 THEN t ELSE GoRem(Minute(t), CHECK_FREQ)

\* The ticker events up to the next query minute: all but the last are
\* received and dropped by the idle goroutine (minute % CHECK_FREQ # 0).
NextCheck(t) ==
  IF CHECK_FREQ = 0 THEN t + 1
  ELSE CHOOSE u \in (t + 1)..(t + MinutesPerHour) :
         /\ GoRem(Minute(u), CHECK_FREQ) = 0
         /\ \A v \in (t + 1)..(u - 1) : GoRem(Minute(v), CHECK_FREQ) # 0

\* The clock.  A running ticker sends the time every minute unless its
\* one-slot channel is still full.  While every goroutine is idle the
\* clock runs on to the next query minute; while one has work to do it
\* advances minute by minute, at most MaxLag minutes past a query minute.
Tick ==
  /\ Running /\ pc["main"] = "waitExit"
  /\ IF Quiet /\ tickerOn
     THEN /\ NextCheck(now) <= MaxTime
          /\ now' = NextCheck(now)
          /\ tickerC' = NextCheck(now)
     ELSE /\ now < MaxTime
          /\ SinceCheck(now) < MaxLag
          /\ now' = now + 1
          /\ tickerC' = IF tickerOn /\ tickerC = NoTick THEN now + 1
                        ELSE tickerC
  /\ UNCHANGED <<conf, bench, proc, exitStatus, pc, i, sched, img, notified, signals,
                 exit, stopTicker, tickerOn, tlocals, drv, hist>>

\* ------------------------------------------------- ticker goroutine

\* The handler of a tick is over: its locals go out of scope (checkNewId
\* and branch keep the outcome of the tick until the next query).
TickDone ==
  /\ currentTime' = 0
  /\ retry' = FALSE
  /\ undecoded' = FALSE
  /\ img' = [img EXCEPT !["ticker"] = Nil]
  /\ UNCHANGED <<checkNewId, branch>>

\* case currentTime := <-ticker.C: if currentTime.Minute()%CHECK_FREQ == 0
\* (integer division by zero is a run-time panic, which ends the process)
TickRecv ==
  /\ Running /\ pc["ticker"] = "select" /\ tickerC # NoTick
  /\ tickerC' = NoTick
  /\ IF CHECK_FREQ = 0
     THEN /\ proc' = "panicked"
          /\ UNCHANGED <<pc, currentTime, tickDisplays, tickClears>>
     ELSE IF GoRem(Minute(tickerC), CHECK_FREQ) = 0
     THEN /\ pc' = [pc EXCEPT !["ticker"] = "query"]
          /\ currentTime' = tickerC
          /\ tickDisplays' = 0
          /\ tickClears' = 0
          /\ UNCHANGED proc
     ELSE UNCHANGED <<proc, pc, currentTime, tickDisplays, tickClears>>
  /\ UNCHANGED <<conf, bench, now, exitStatus, i, sched, img, notified, signals,
                 exit, stopTicker, tickerOn, checkNewId, branch, drv, sigCount,
                 displayedId, clearsSinceSig, lastClearAt, allFail, retry,
                 undecoded>>

\* case <-stopTicker: ticker.Stop(); the loop goes on
TickStop ==
  /\ Running /\ pc["ticker"] = "select" /\ stopTicker = 1
  /\ stopTicker' = 0
  /\ tickerOn' = FALSE
  /\ UNCHANGED <<conf, bench, now, proc, exitStatus, pc, i, sched, img, notified,
                 signals, exit, tickerC, tlocals, drv, hist>>

\* TickQuery without the checkNewId == currentId test
TickQuery_NoSameTest ==
  /\ Running /\ pc["ticker"] = "query"
  /\ \E r \in IdOutcomes :
       /\ checkNewId' = r.id
       /\ allFail' = (allFail /\ (r.err \/ r.id = ""))
       /\ retry' = (branch = "nofile" /\ ~r.err /\ r.id = checkNewId)
       /\ UNCHANGED undecoded
       /\ lastClearAt' = IF r.err \/ r.id = "" THEN lastClearAt ELSE -1
       /\ IF r.err \/ r.id = ""
          THEN /\ branch' = "fail"
               /\ pc' = [pc EXCEPT !["ticker"] = "stale"]
          ELSE /\ branch' = "new"
               /\ pc' = [pc EXCEPT !["ticker"] = "fetch"]
  /\ UNCHANGED <<conf, bench, now, proc, exitStatus, i, sched, img, notified, chans,
                 currentTime, drv, sigCount, displayedId, clearsSinceSig,
                 tickDisplays, tickClears>>

\* checkNewId, err := getCurrentId() and the two tests on it
TickQuery ==
  /\ Running /\ pc["ticker"] = "query"
  /\ \E r \in IdOutcomes :
       /\ checkNewId' = r.id
       /\ allFail' = (allFail /\ (r.err \/ r.id = ""))
       /\ retry' = (branch = "nofile" /\ ~r.err /\ r.id = checkNewId)
       /\ UNCHANGED undecoded
       /\ lastClearAt' = IF r.err \/ r.id = "" THEN lastClearAt ELSE -1
       /\ IF r.err \/ r.id = ""
          THEN /\ branch' = "fail"
               /\ pc' = [pc EXCEPT !["ticker"] = "stale"]
          ELSE IF r.id = currentId
          THEN /\ branch' = "same"
               /\ pc' = [pc EXCEPT !["ticker"] = "stale"]
          ELSE /\ branch' = "new"
               /\ pc' = [pc EXCEPT !["ticker"] = "fetch"]
  /\ UNCHANGED <<conf, bench, now, proc, exitStatus, i, sched, img, notified, chans,
                 currentTime, drv, sigCount, displayedId, clearsSinceSig,
                 tickDisplays, tickClears>>

\* image, err := getImage(checkNewId); on success displayImage(image, epd)
TickFetch ==
  /\ Running /\ pc["ticker"] = "fetch"
  /\ \E r \in IdOutcomes, f \in FetchOutcomes :
       LET m == getImage(checkNewId, r, f) IN
         /\ undecoded' = (f = "decode")
         /\ IF m = Nil
            THEN /\ branch' = "nofile"
                 /\ pc' = [pc EXCEPT !["ticker"] = "stale"]
                 /\ UNCHANGED <<img, op, at, displayedId, clearsSinceSig,
                                tickDisplays>>
            ELSE /\ img' = [img EXCEPT !["ticker"] = m]
                 /\ tickDisplays' = tickDisplays + 1
                 /\ Invoke("ticker", "display", m)
                 /\ UNCHANGED branch
  /\ UNCHANGED <<conf, bench, now, proc, exitStatus, i, sched, notified, chans,
                 currentTime, checkNewId, panel, sigCount, tickClears,
                 lastClearAt, allFail, retry>>

\* TickStale clearing without the test on the elapsed time
TickStale_NoTest ==
  /\ Running /\ pc["ticker"] = "stale"
  /\ Invoke("ticker", "clear", Nil)
  /\ tickClears' = tickClears + 1
  /\ lastClearAt' = IF allFail THEN now ELSE -1
  /\ UNCHANGED <<currentTime, checkNewId, branch, img, retry,
                         undecoded>>
  /\ UNCHANGED <<conf, bench, now, proc, exitStatus, i, sched, notified, chans,
                 panel, sigCount, tickDisplays, allFail>>

\* if time.Since(lastUpdated).Hours() >= float64(CLEAR_AFTER) {
\*   displayClear(epd); ... }; continue
TickStale ==
  /\ Running /\ pc["ticker"] = "stale"
  /\ IF Stale(now, lastUpdated, CLEAR_AFTER)
     THEN /\ Invoke("ticker", "clear", Nil)
          /\ tickClears' = tickClears + 1
          /\ lastClearAt' = IF allFail THEN now ELSE -1
          /\ UNCHANGED <<currentTime, checkNewId, branch, img, retry,
                         undecoded>>
     ELSE /\ pc' = [pc EXCEPT !["ticker"] = "select"]
          /\ TickDone
          /\ UNCHANGED <<op, at, displayedId, clearsSinceSig, tickClears,
                         lastClearAt>>
  /\ UNCHANGED <<conf, bench, now, proc, exitStatus, i, sched, notified, chans,
                 panel, sigCount, tickDisplays, allFail>>

\* TickRestamp leaving lastUpdated as it was
TickRestamp_NoReset ==
  /\ Running /\ pc["ticker"] = "restamp"
  /\ pc' = [pc EXCEPT !["ticker"] = "select"]
  /\ TickDone
  /\ UNCHANGED <<conf, bench, now, proc, exitStatus, i, sched, notified, chans,
                 drv, sigCount, displayedId, clearsSinceSig,
                 tickDisplays, tickClears, lastClearAt, allFail>>

\* lastUpdated = time.Now() after the stale clear
TickRestamp ==
  /\ Running /\ pc["ticker"] = "restamp"
  /\ lastUpdated' = now
  /\ pc' = [pc EXCEPT !["ticker"] = "select"]
  /\ TickDone
  /\ UNCHANGED <<conf, bench, now, proc, exitStatus, i, currentId, notified, chans,
                 drv, sigCount, displayedId, clearsSinceSig,
                 tickDisplays, tickClears, lastClearAt, allFail>>

\* TickUpdate without the assignment to currentId
TickUpdate_NoId ==
  /\ Running /\ pc["ticker"] = "update"
  /\ lastUpdated' = now
  /\ pc' = [pc EXCEPT !["ticker"] = "select"]
  /\ TickDone
  /\ UNCHANGED <<conf, bench, now, proc, exitStatus, i, currentId, notified, chans,
                 drv, sigCount, displayedId, clearsSinceSig,
                 tickDisplays, tickClears, lastClearAt, allFail>>

\* currentId = checkNewId; lastUpdated = time.Now() after displayImage
TickUpdate ==
  /\ Running /\ pc["ticker"] = "update"
  /\ currentId' = checkNewId
  /\ lastUpdated' = now
  /\ pc' = [pc EXCEPT !["ticker"] = "select"]
  /\ TickDone
  /\ UNCHANGED <<conf, bench, now, proc, exitStatus, i, notified, chans, drv,
                 sigCount, displayedId, clearsSinceSig,
                 tickDisplays, tickClears, lastClearAt, allFail>>

\* ------------------------------------------------- signal goroutine

\* received := <-signals
SigRecv ==
  /\ Running /\ pc["signal"] = "recv" /\ signals = 1
  /\ signals' = 0
  /\ pc' = [pc EXCEPT !["signal"] = "stop"]
  /\ UNCHANGED <<conf, bench, now, proc, exitStatus, i, sched, img, notified, exit,
                 stopTicker, tickerC, tickerOn, tlocals, drv, hist>>

\* stopTicker <- true
SigStop ==
  /\ Running /\ pc["signal"] = "stop" /\ stopTicker = 0
  /\ stopTicker' = 1
  /\ pc' = [pc EXCEPT !["signal"] = "call"]
  /\ UNCHANGED <<conf, bench, now, proc, exitStatus, i, sched, img, notified,
                 signals, exit, tickerC, tickerOn, tlocals, drv, hist>>

\* displayClear(epd)
SigClear ==
  /\ Running /\ pc["signal"] = "call"
  /\ Invoke("signal", "clear", Nil)
  /\ UNCHANGED <<conf, bench, now, proc, exitStatus, i, sched, img, notified, chans,
                 tlocals, panel, sigCount, tickHist>>

\* lastUpdated = time.Now()
SigStamp ==
  /\ Running /\ pc["signal"] = "stamp"
  /\ lastUpdated' = now
  /\ pc' = [pc EXCEPT !["signal"] = "send"]
  /\ UNCHANGED <<conf, bench, now, proc, exitStatus, i, currentId, img, notified,
                 chans, tlocals, drv, hist>>

\* exit <- 0
SigSend ==
  /\ Running /\ pc["signal"] = "send" /\ exit = <<>>
  /\ exit' = <<0>>
  /\ pc' = [pc EXCEPT !["signal"] = "end"]
  /\ UNCHANGED <<conf, bench, now, proc, exitStatus, i, sched, img, notified,
                 signals, stopTicker, tickerC, tickerOn, tlocals, drv, hist>>

\* ------------------------------------------------------ specification

Next ==
  \/ ReadConfig
  \/ CheckArgs
  \/ OpenPanel
  \/ Dispatch
  \/ CmdGetId
  \/ CmdGetImage
  \/ CmdReturn
  \/ CheckConnected
  \/ StartStamp
  \/ StartGetId
  \/ StartGetImage
  \/ Launch
  \/ MainExit
  \/ Signal
  \/ Tick
  \/ TickRecv
  \/ TickStop
  \/ TickQuery
  \/ TickFetch
  \/ TickStale
  \/ TickRestamp
  \/ TickUpdate
  \/ SigRecv
  \/ SigStop
  \/ SigClear
  \/ SigStamp
  \/ SigSend
  \/ \E t \in Threads : EpdReset(t)
  \/ \E t \in Threads : EpdInit(t)
  \/ \E t \in Threads : EpdDisplay(t)
  \/ \E t \in Threads : EpdClear(t)
  \/ \E t \in Threads : EpdSleep(t)

Spec == Init /\ [][Next]_vars

\* ------------------------------------- run, case "service", older listing
\* (src/paperframe.go lines 453-681: no configuration, no scheduler state;
\* the image of /now/image is fetched at start and at minute 0 of each hour)

QueryMinutesOld == 60   \* currentTime.Minute() == 0: once per hour

FetchOutcomesOld == {"ok", "neterr", "http", "redirected", "decode"}

\* getImage of the older listing for the image with id x at its path:
\* the failure branch reads data.Request.Response.Status, a nil dereference
\* unless the failing response followed a redirect.
getImageOld(x, fetch) ==
  CASE fetch = "ok" -> <<x>>
    [] fetch \in {"neterr", "http"} -> "panic"
    [] OTHER -> Nil

InitOld ==
  /\ WireIdle /\ ConvIdle
  /\ CHECK_FREQ = QueryMinutesOld
  /\ CLEAR_AFTER = 0
  /\ arch \in ArchChoices
  /\ args \in ArgChoices
  /\ epd = FALSE
  /\ now = 0
  /\ proc = "running"
  /\ exitStatus = -1
  /\ pc = [t \in Threads |-> IF t = "main" THEN "args" ELSE "off"]
  /\ i = 0
  /\ lastUpdated = 0
  /\ currentId = ""
  /\ img = [t \in Threads |-> Nil]
  /\ notified = FALSE
  /\ signals = 0
  /\ exit = <<>>
  /\ stopTicker = 0
  /\ tickerC = NoTick
  /\ tickerOn = FALSE
  /\ currentTime = 0
  /\ checkNewId = ""
  /\ branch = "none"
  /\ op = [t \in Threads |-> "none"]
  /\ at = [t \in Threads |-> 0]
  /\ panel = "Asleep"
  /\ sigCount = 0
  /\ displayedId = ""
  /\ tickDisplays = 0
  /\ tickClears = 0
  /\ clearsSinceSig = 0
  /\ lastClearAt = -1
  /\ allFail = TRUE
  /\ retry = FALSE
  /\ undecoded = FALSE

\* if runtime.GOARCH != "arm" { ... } else { epd, _ = epd7in5v2.New(...) }
OldOpenPanel ==
  /\ Running /\ pc["main"] = "open"
  /\ \E ok \in BOOLEAN : epd' = (arch = "arm" /\ ok)
  /\ pc' = [pc EXCEPT !["main"] = "dispatch"]
  /\ UNCHANGED <<env, bench, now, proc, exitStatus, i, sched, img, notified, chans,
                 tlocals, drv, hist>>

\* switch os.Args[1] ("version" is not a command of this listing)
OldDispatch ==
  /\ Running /\ pc["main"] = "dispatch"
  /\ CASE Head(args) = "clear" ->
            /\ Invoke("main", "clear", Nil)
            /\ UNCHANGED <<proc, exitStatus>>
       [] Head(args) = "current" ->
            /\ pc' = [pc EXCEPT !["main"] = "cmdImage"]
            /\ UNCHANGED <<proc, exitStatus, op, at, displayedId,
                           clearsSinceSig>>
       [] Head(args) = "display" ->
            /\ IF Len(args) < 2
               THEN ExitWith(1)
               ELSE /\ pc' = [pc EXCEPT !["main"] = "cmdImage"]
                    /\ UNCHANGED <<proc, exitStatus>>
            /\ UNCHANGED <<op, at, displayedId, clearsSinceSig>>
       [] Head(args) = "service" ->
            /\ pc' = [pc EXCEPT !["main"] = "getImage"]
            /\ UNCHANGED <<proc, exitStatus, op, at, displayedId,
                           clearsSinceSig>>
       [] OTHER ->
            /\ ExitWith(1)
            /\ UNCHANGED <<op, at, displayedId, clearsSinceSig>>
  /\ UNCHANGED <<conf, bench, now, i, sched, img, notified, chans, tlocals, panel,
                 sigCount, tickHist>>

\* The ids of the images the server may return for the path of getImage(id):
\* any for /now/image, the one asked for otherwise
ServedOld(id) == IF id = "" THEN Ids ELSE {id}

\* case "current": getImage(""); case "display": getImage(os.Args[2]);
\* on error return 1; displayImage(image, epd)
OldCmdGetImage ==
  /\ Running /\ pc["main"] = "cmdImage"
  /\ \E x \in ServedOld(IF Head(args) = "current" THEN "" ELSE args[2]),
        f \in FetchOutcomesOld :
       LET m == getImageOld(x, f) IN
         IF m = "panic"
         THEN /\ proc' = "panicked"
              /\ UNCHANGED <<exitStatus, pc, img, op, at, displayedId,
                             clearsSinceSig>>
         ELSE IF m = Nil
         THEN /\ ExitWith(1)
              /\ UNCHANGED <<img, op, at, displayedId, clearsSinceSig>>
         ELSE /\ img' = [img EXCEPT !["main"] = m]
              /\ Invoke("main", "display", m)
              /\ UNCHANGED <<proc, exitStatus>>
  /\ UNCHANGED <<conf, bench, now, i, sched, notified, chans, tlocals, panel,
                 sigCount, tickHist>>

\* case "clear": displayClear(epd); return 1
\* case "current", "display": displayImage(image, epd); return 0
OldCmdReturn ==
  /\ Running /\ pc["main"] = "ret"
  /\ ExitWith(IF Head(args) = "clear" THEN 1 ELSE 0)
  /\ UNCHANGED <<conf, bench, now, i, sched, img, notified, chans, tlocals, drv,
                 hist>>

\* image, err := getImage(""); if err != nil { return 1 }; displayImage(...)
OldStartGetImage ==
  /\ Running /\ pc["main"] = "getImage"
  /\ \E x \in Ids, f \in FetchOutcomesOld :
       LET m == getImageOld(x, f) IN
         IF m = "panic"
         THEN /\ proc' = "panicked"
              /\ UNCHANGED <<exitStatus, pc, img, op, at, displayedId,
                             clearsSinceSig>>
         ELSE IF m = Nil
         THEN /\ proc' = "exited"
              /\ exitStatus' = 1
              /\ pc' = [pc EXCEPT !["main"] = "done"]
              /\ UNCHANGED <<img, op, at, displayedId, clearsSinceSig>>
         ELSE /\ img' = [img EXCEPT !["main"] = m]
              /\ Invoke("main", "display", m)
              /\ UNCHANGED <<proc, exitStatus>>
  /\ UNCHANGED <<conf, bench, now, i, sched, notified, chans, tlocals, panel,
                 sigCount, tickHist>>

\* case currentTime := <-ticker.C: if currentTime.Minute() == 0
OldTickRecv ==
  /\ Running /\ pc["ticker"] = "select" /\ tickerC # NoTick
  /\ tickerC' = NoTick
  /\ IF Minute(tickerC) = 0
     THEN /\ pc' = [pc EXCEPT !["ticker"] = "fetch"]
          /\ currentTime' = tickerC
     ELSE UNCHANGED <<pc, currentTime>>
  /\ UNCHANGED <<conf, bench, now, proc, exitStatus, i, sched, img, notified, signals,
                 exit, stopTicker, tickerOn, checkNewId, branch, drv, hist>>

\* image, _ := getImage(""); if image != nil { displayImage(image, epd) }
OldTickFetch ==
  /\ Running /\ pc["ticker"] = "fetch"
  /\ \E x \in Ids, f \in FetchOutcomesOld :
       LET m == getImageOld(x, f) IN
         IF m = "panic"
         THEN /\ proc' = "panicked"
              /\ UNCHANGED <<pc, img, op, at, displayedId, clearsSinceSig,
                             currentTime>>
         ELSE IF m = Nil
         THEN /\ pc' = [pc EXCEPT !["ticker"] = "select"]
              /\ currentTime' = 0
              /\ UNCHANGED <<proc, img, op, at, displayedId, clearsSinceSig>>
         ELSE /\ img' = [img EXCEPT !["ticker"] = m]
              /\ Invoke("ticker", "display", m)
              /\ UNCHANGED <<proc, currentTime>>
  /\ UNCHANGED <<conf, bench, now, exitStatus, i, sched, notified, chans, checkNewId,
                 branch, panel, sigCount, tickHist>>

\* displayImage has returned: back to the select
OldTickResume ==
  /\ Running /\ pc["ticker"] = "update"
  /\ pc' = [pc EXCEPT !["ticker"] = "select"]
  /\ currentTime' = 0
  /\ img' = [img EXCEPT !["ticker"] = Nil]
  /\ UNCHANGED <<conf, bench, now, proc, exitStatus, i, sched, notified, chans,
                 checkNewId, branch, drv, hist>>

\* exit <- 0 right after displayClear
OldSigSend ==
  /\ Running /\ pc["signal"] = "stamp" /\ exit = <<>>
  /\ exit' = <<0>>
  /\ pc' = [pc EXCEPT !["signal"] = "end"]
  /\ UNCHANGED <<conf, bench, now, proc, exitStatus, i, sched, img, notified,
                 signals, stopTicker, tickerC, tickerOn, tlocals, drv, hist>>

NextOld ==
  \/ CheckArgs
  \/ OldOpenPanel
  \/ OldDispatch
  \/ OldCmdGetImage
  \/ OldCmdReturn
  \/ OldStartGetImage
  \/ Launch
  \/ MainExit
  \/ Signal
  \/ Tick
  \/ OldTickRecv
  \/ TickStop
  \/ OldTickFetch
  \/ OldTickResume
  \/ SigRecv
  \/ SigStop
  \/ SigClear
  \/ OldSigSend
  \/ \E t \in Threads : EpdReset(t)
  \/ \E t \in Threads : EpdInit(t)
  \/ \E t \in Threads : EpdDisplay(t)
  \/ \E t \in Threads : EpdClear(t)
  \/ \E t \in Threads : EpdSleep(t)

SpecOld == InitOld /\ [][NextOld]_vars

\* ------------------------- the driver alone: idle waits of one sequence

\* The program is not running: its variables at their initial values
ProgIdle ==
  /\ CHECK_FREQ = 0 /\ CLEAR_AFTER = 0 /\ arch = "arm" /\ args = <<>>
  /\ epd = TRUE /\ now = 0 /\ proc = "running" /\ exitStatus = -1
  /\ pc = [t \in Threads |-> "off"]
  /\ i = 0 /\ lastUpdated = 0 /\ currentId = ""
  /\ img = [t \in Threads |-> Nil]
  /\ notified = FALSE /\ signals = 0 /\ exit = <<>> /\ stopTicker = 0
  /\ tickerC = NoTick /\ tickerOn = FALSE
  /\ currentTime = 0 /\ checkNewId = "" /\ branch = "none"
  /\ op = [t \in Threads |-> "none"] /\ at = [t \in Threads |-> 0]
  /\ panel = "Asleep"
  /\ sigCount = 0 /\ displayedId = "" /\ tickDisplays = 0 /\ tickClears = 0
  /\ clearsSinceSig = 0 /\ lastClearAt = -1 /\ allFail = TRUE
  /\ retry = FALSE /\ undecoded = FALSE

InitWaits == 12         \* waitUntilIdle calls of Epd.Init

\* waitUntilIdle calls of a driver method
Waits(m) ==
  CASE m = "Init" -> InitWaits
    [] m \in {"Display", "Clear", "Sleep"} -> 1
    [] OTHER -> 0

\* The method displayImage / displayClear calls after m
NextMethod(m) ==
  CASE m = "Reset" -> "Init"
    [] m = "Init" -> IF seq = "display" THEN "Display" ELSE "Clear"
    [] m \in {"Display", "Clear"} -> "Sleep"
    [] OTHER -> "done"

InitEpd ==
  /\ ProgIdle /\ ConvIdle
  /\ seq \in {"display", "clear"}
  /\ method = "Reset"
  /\ waitNo = 0
  /\ polls = 0
  /\ busy \in {"Low", "High"}

\* Epd.Reset: three writes of the reset line, no wait
DrvReset ==
  /\ method = "Reset"
  /\ method' = NextMethod(method)
  /\ UNCHANGED <<prog, conv, seq, waitNo, polls, busy>>

\* One test of waitUntilIdle's loop, for e.busy.Read() == gpio.Low: on Low
\* it sleeps and reads again (the counter of the model stops at
\* MaxPolls + 1); on High the wait returns and the method goes on to its
\* next wait or returns.
DrvPoll ==
  /\ method \in {"Init", "Display", "Clear", "Sleep"}
  /\ IF busy = "Low"
     THEN /\ polls <= MaxPolls
          /\ polls' = polls + 1
          /\ UNCHANGED <<method, waitNo>>
     ELSE /\ polls' = 0
          /\ IF waitNo + 1 < Waits(method)
             THEN /\ waitNo' = waitNo + 1
                  /\ UNCHANGED method
             ELSE /\ waitNo' = 0
                  /\ method' = NextMethod(method)
  /\ UNCHANGED <<prog, conv, seq, busy>>

\* The controller asserts or releases the busy line
Controller ==
  /\ method # "done"
  /\ busy' = IF busy = "Low" THEN "High" ELSE "Low"
  /\ UNCHANGED <<prog, conv, seq, method, waitNo, polls>>

NextEpd ==
  \/ DrvReset
  \/ DrvPoll
  \/ Controller

SpecEpd == InitEpd /\ [][NextEpd]_vars

\* ------------------------------------------------------ Convert alone

PanelWidths == 1..MaxWidth
PanelHeights == 1..MaxHeight
Patterns == {"white", "light", "black", "checker", "ramp"}

\* The source images: bounds rectangle Min = (x0, y0), size dx by dy; the
\* pixels inside it follow pat; At outside the rectangle returns the tone
\* `outside` (which colour that is depends on the image type).
Images(w, h) ==
  [x0 : {0, 1}, y0 : {0, 1}, dx : {0, 1, 3, w, w + 1}, dy : {0, 1, h, h + 1},
   pat : Patterns, outside : {0, MaxTone}]

\* Tone of the pixel (x, y) of a pattern
Tone(pat, x, y) ==
  CASE pat = "white" -> MaxTone
    [] pat = "light" -> MaxTone - 1
    [] pat = "black" -> 0
    [] pat = "checker" -> IF (x + y) % 2 = 0 THEN MaxTone ELSE 0
    [] OTHER -> (x + y) % (MaxTone + 1)

\* img.Bounds() contains (x, y)
InBounds(m, x, y) ==
  /\ m.x0 <= x /\ x < m.x0 + m.dx
  /\ m.y0 <= y /\ y < m.y0 + m.dy

\* img.At(x, y)
ImageAt(m, x, y) == IF InBounds(m, x, y) THEN Tone(m.pat, x, y) ELSE m.outside

\* color.Palette{color.White, color.Black}.Index(c): the first entry at the
\* least squared distance (0: White, 1: Black)
PaletteIndex(g) ==
  LET toWhite == (MaxTone - g) * (MaxTone - g)
      toBlack == g * g
  IN IF toBlack < toWhite THEN 1 ELSE 0

bgColor == 1

\* widthByte without the extra byte of a partial last group
WidthByte_Floor(w) == w \div 8

\* widthByte as New computes it from EPD_WIDTH
WidthByte(w) == IF w % 8 = 0 THEN w \div 8 ELSE w \div 8 + 1

\* 2^n
RECURSIVE Pow2(_)
Pow2(n) == IF n = 0 THEN 1 ELSE 2 * Pow2(n - 1)

\* Bit n (0: least significant) of the byte b
BitOf(b, n) == (b \div Pow2(n)) % 2

\* byteToSend |= 0x80 >> (uint32(i) % 8)
OrBit(b, col) ==
  IF BitOf(b, 7 - (col % 8)) = 1 THEN b ELSE b + Pow2(7 - (col % 8))

\* The bit Convert computes for the device coordinate (col, row):
\* if i < img.Bounds().Dx() && j < img.Bounds().Dy() { bit = palette index
\* of img.At(i, j) } else { bit = bgColor }
PixelBit(m, col, row) ==
  IF col < m.dx /\ row < m.dy THEN PaletteIndex(ImageAt(m, col, row))
  ELSE bgColor

\* The two loops of Convert from pixel k = j * w + i on, with the buffer
\* and byteToSend as they stand (buffer[n] of the code is buffer[n + 1])
RECURSIVE ConvertFrom(_, _, _, _, _, _)
ConvertFrom(k, w, h, m, buffer, byteToSend) ==
  IF k >= w * h THEN buffer
  ELSE
    LET col == k % w
        row == k \div w
        bit == PixelBit(m, col, row)
        b == IF bit = 1 THEN OrBit(byteToSend, col) ELSE byteToSend
    IN IF col % 8 = 7
       THEN ConvertFrom(k + 1, w, h, m,
              [buffer EXCEPT ![(col \div 8) + row * WidthByte(w) + 1] = b], 0)
       ELSE ConvertFrom(k + 1, w, h, m, buffer, b)

\* Epd.Convert for a panel of w by h pixels
Convert(w, h, m) ==
  ConvertFrom(0, w, h, m, [n \in 1..(WidthByte(w) * h) |-> 0], 0)

InitConv ==
  /\ ProgIdle /\ WireIdle
  /\ panelW \in PanelWidths
  /\ panelH \in PanelHeights
  /\ src \in Images(panelW, panelH)
  /\ frame = <<>>
  /\ converted = FALSE
  /\ cleared = <<>>

\* buffer := e.Convert(img)
DoConvert ==
  /\ ~converted
  /\ frame' = Convert(panelW, panelH, src)
  /\ converted' = TRUE
  /\ UNCHANGED <<prog, wire, panelW, panelH, src, cleared>>

ClearFill == 0          \* []byte{0x00}

\* bytes.Repeat([]byte{0x00}, e.heightByte*e.widthByte) of Epd.Clear
ClearBytes(w, h) == [n \in 1..(h * WidthByte(w)) |-> ClearFill]

\* Epd.Clear transmits its buffer to both planes
DoClear ==
  /\ cleared = <<>>
  /\ cleared' = ClearBytes(panelW, panelH)
  /\ UNCHANGED <<prog, wire, panelW, panelH, src, frame, converted>>

NextConv ==
  \/ DoConvert
  \/ DoClear

SpecConv == InitConv /\ [][NextConv]_vars

\* --------------------------------------------------------- properties

InFlight(t) == op[t] # "none"

\* run is inside the service case
InService ==
  /\ args = <<"service">>
  /\ pc["main"] \in {"connect", "stamp", "getId", "getImage", "epd", "launch",
                     "waitExit"}

\* A step taken by the ticker goroutine
TickerStep == pc'["ticker"] # pc["ticker"] \/ at'["ticker"] # at["ticker"]

\* C1: at most one panel command sequence is in flight at any time: the
\* sequence of the tick handler and the sequence of the shutdown handler
\* never overlap.
C1_OneSequenceInFlight == ~(InFlight("ticker") /\ InFlight("signal"))

\* C2: a tick-triggered sequence that is in flight runs to completion before
\* the shutdown clear starts and before the process exits.
C2_InFlightCompletesFirst ==
  [][InFlight("ticker") =>
       /\ ~(~InFlight("signal") /\ InFlight("signal")')
       /\ proc' = "running"]_vars

\* C3: between receipt of a termination signal and process exit exactly one
\* clear is started, it has completed when the exit status is delivered,
\* and the status is 0.
C3_OneClearThenExit ==
  (proc = "exited" /\ sigSeen) =>
    /\ clearsSinceSig = 1
    /\ pc["signal"] = "end" /\ ~InFlight("signal")
    /\ exitStatus = 0

\* The ticker goroutine is handling a tick whose query has returned
InHandler == pc["ticker"] \in {"stale", "fetch", "epd", "restamp", "update"}

\* Time since lastUpdated and the clear-after threshold, in minutes
Elapsed == now - lastUpdated
Threshold == CLEAR_AFTER * MinutesPerHour

\* C4: on a tick whose fetched identifier equals currentId the handler makes
\* no display call, and it changes lastUpdated only after a clear that the
\* stale test (elapsed time at or over the threshold) asked for.
C4_SameIdIdempotent ==
  [][(TickerStep /\ InHandler /\ checkNewId = currentId) =>
       /\ op'["ticker"] # "display" /\ tickDisplays' = 0
       /\ currentId' = currentId
       /\ (lastUpdated' # lastUpdated =>
             pc["ticker"] = "restamp" /\ tickClears = 1)
       /\ (tickClears' # tickClears =>
             pc["ticker"] = "stale" /\ Elapsed >= Threshold)
    ]_vars

\* A tick with an unchanged identifier under the threshold has been handled.
C4_Witness ==
  /\ pc["ticker"] = "select" /\ branch = "same" /\ checkNewId = currentId
  /\ tickDisplays = 0 /\ tickClears = 0
  /\ CLEAR_AFTER > 0 /\ now >= 2 * CHECK_FREQ /\ lastUpdated < CHECK_FREQ

\* C5: once startup is over and no tick is being handled, currentId is the
\* identifier of the image most recently displayed (empty if none was).
C5_CurrentIdIsDisplayed ==
  (InService /\ pc["main"] = "waitExit" /\ pc["ticker"] = "select") =>
    currentId = displayedId

\* C6: a tick with a new identifier whose image is fetched and decoded makes
\* exactly one displayImage call, with that image, and no clear; when the
\* handler is done currentId is the fetched identifier and lastUpdated the
\* time of the refresh.
C6_NewIdDisplayedOnce ==
  [][(TickerStep /\ branch' = "new" /\ pc["ticker"] \in {"fetch", "epd", "update"}) =>
       /\ (pc["ticker"] = "fetch" =>
             /\ tickDisplays' = 1 /\ tickClears' = 0
             /\ img'["ticker"] = <<checkNewId>>
             /\ pc'["ticker"] = IF epd THEN "epd" ELSE "update")
       /\ (pc["ticker"] = "epd" => op["ticker"] = "display")
       /\ (pc["ticker"] = "update" =>
             /\ tickDisplays = 1 /\ tickClears = 0
             /\ displayedId = checkNewId
             /\ currentId' = checkNewId /\ currentId # checkNewId
             /\ lastUpdated' = now
             /\ pc'["ticker"] = "select")
    ]_vars

\* A tick with a new identifier has displayed its image and updated the state.
C6_Witness ==
  /\ pc["ticker"] = "select" /\ branch = "new" /\ tickDisplays = 1
  /\ currentId = checkNewId /\ displayedId = checkNewId
  /\ lastUpdated = now /\ now >= 2 * CHECK_FREQ /\ CHECK_FREQ > 0

\* C7: while every id query fails, a tick clears exactly when the time since
\* lastUpdated has reached the threshold (so the first tick to cross it
\* clears, once), lastUpdated is then reset to the time of the clear, and
\* the next clear is at least a full threshold after the previous one.
C7_OneClearPerThreshold ==
  [][(TickerStep /\ allFail /\ branch = "fail") =>
       /\ (pc["ticker"] = "stale" =>
             IF Elapsed >= Threshold
             THEN /\ tickClears = 0 /\ tickClears' = 1
                  /\ pc'["ticker"] = IF epd THEN "epd" ELSE "restamp"
                  /\ (lastClearAt >= 0 => now - lastClearAt >= Threshold)
             ELSE /\ tickClears' = 0 /\ pc'["ticker"] = "select"
                  /\ lastUpdated' = lastUpdated)
       /\ (pc["ticker"] = "epd" => op["ticker"] = "clear")
       /\ (pc["ticker"] = "restamp" =>
             /\ tickClears = 1 /\ lastUpdated' = now
             /\ pc'["ticker"] = "select")
    ]_vars

\* Every query has failed for an hour and a half: the tick of minute 60 cleared,
\* lastUpdated was reset then, and a later failing tick did not clear again.
C7_Witness ==
  /\ allFail /\ CLEAR_AFTER = 1 /\ pc["ticker"] = "select" /\ branch = "fail"
  /\ lastClearAt = MinutesPerHour /\ lastUpdated = MinutesPerHour
  /\ now >= MinutesPerHour + CHECK_FREQ /\ tickClears = 0 /\ ~sigSeen

\* C8 as stated: on a tick whose query fails or returns the unchanged id a
\* clear is issued if the elapsed time exceeds the threshold; otherwise no
\* panel command is issued and lastUpdated is unchanged.
C8_ClearIffExceeds ==
  [][(TickerStep /\ pc["ticker"] = "stale" /\ branch \in {"fail", "same"}) =>
       IF Elapsed > Threshold
       THEN tickClears' = 1 /\ pc'["ticker"] \in {"epd", "restamp"}
       ELSE /\ tickClears' = 0 /\ pc'["ticker"] = "select"
            /\ op'["ticker"] = "none" /\ lastUpdated' = lastUpdated
    ]_vars

\* C8 amended: the clear is issued if the elapsed time is at least the
\* threshold; below it no panel command is issued, lastUpdated is unchanged.
C8_ClearIffAtLeast ==
  [][(TickerStep /\ pc["ticker"] = "stale" /\ branch \in {"fail", "same"}) =>
       IF Elapsed >= Threshold
       THEN tickClears' = 1 /\ pc'["ticker"] \in {"epd", "restamp"}
       ELSE /\ tickClears' = 0 /\ pc'["ticker"] = "select"
            /\ op'["ticker"] = "none" /\ lastUpdated' = lastUpdated
    ]_vars

\* A tick with the unchanged id is clearing at exactly the threshold.
C8_Witness ==
  /\ branch \in {"fail", "same"} /\ pc["ticker"] = "restamp" /\ tickClears = 1
  /\ CLEAR_AFTER = 1 /\ currentTime - lastUpdated = Threshold

\* C9 as stated: when the identifier has changed but the image cannot be
\* fetched or decoded the handler updates neither currentId nor lastUpdated.
C9_FailureLeavesState ==
  [][(TickerStep /\ InHandler /\ branch = "nofile") =>
       currentId' = currentId /\ lastUpdated' = lastUpdated]_vars

\* C9 amended: currentId is not updated, lastUpdated only by the stale clear
\* (elapsed time at or over the threshold), and the next tick that returns
\* the same identifier fetches the image again.
C9_FailureRetries ==
  [][(TickerStep /\ branch = "nofile") =>
       /\ currentId' = currentId /\ currentId # checkNewId
       /\ tickDisplays' = 0
       /\ (InHandler =>
             /\ (lastUpdated' # lastUpdated =>
                   /\ pc["ticker"] = "restamp" /\ tickClears = 1
                   /\ lastUpdated' = now)
             /\ (tickClears' # tickClears =>
                   pc["ticker"] = "stale" /\ Elapsed >= Threshold)
             /\ (pc["ticker"] = "stale" /\ Elapsed < Threshold =>
                   pc'["ticker"] = "select" /\ lastUpdated' = lastUpdated))
       /\ (~InHandler => lastUpdated' = lastUpdated)
       /\ (pc["ticker"] = "query" /\ checkNewId' = checkNewId =>
             pc'["ticker"] = "fetch")
    ]_vars

\* After a failed fetch the next tick has returned the same id and fetches.
C9_Witness ==
  /\ retry /\ pc["ticker"] = "fetch" /\ branch = "new"
  /\ checkNewId # currentId /\ tickDisplays = 0
  /\ lastUpdated = 0 /\ CLEAR_AFTER > 0

\* C10: once the service case is entered, run returns an exit status only
\* after a termination signal has been received.
C10_ExitOnlyOnSignal == [][(InService /\ proc' = "exited") => sigSeen]_vars

\* C12: once the signal goroutine has received the termination signal and
\* sent its stop request, the ticker goroutine takes up no further tick (it
\* makes no further id query), even if a ticker event was already pending.
C12_NoTickAfterStop ==
  [][(pc["signal"] \in {"call", "epd", "stamp", "send", "end"}) =>
       ~(pc["ticker"] = "select" /\ pc'["ticker"] = "query")]_vars

\* C13: a termination signal delivered at any point of the service command
\* leads to the shutdown: the process ends only by returning status 0 after
\* a final clear.
C13_SignalEntersShutdown ==
  (args = <<"service">> /\ sigSeen /\ proc # "running") =>
    (proc = "exited" /\ exitStatus = 0 /\ clearsSinceSig >= 1)

\* C14: when opening the panel fails on compatible hardware (the handle is
\* absent after the open step) the process goes on to the command switch.
C14_OpenFailureGoesHeadless ==
  [][(pc["main"] = "open" /\ arch = "arm" /\ pc'["main"] # "open" /\ ~epd') =>
       (proc' = "running" /\ pc'["main"] = "dispatch")]_vars

\* C15: with an absent handle no panel command sequence is ever started or
\* in progress and the panel is never touched: displayImage and displayClear
\* return at once, in every command and every state of the service.
C15_AbsentHandleNoOp ==
  ~epd => /\ panel = "Asleep"
          /\ \A t \in Threads : pc[t] # "epd" /\ op[t] = "none" /\ at[t] = 0

\* Without a handle a tick of the service has called displayImage, which
\* has returned with the panel untouched.
C15_Witness ==
  /\ ~epd /\ panel = "Asleep" /\ args = <<"service">>
  /\ pc["ticker"] = "update" /\ tickDisplays = 1 /\ op["ticker"] = "none"

\* C16 as stated: on a tick whose image cannot be decoded no panel command
\* is issued (no display, no clear) and the process keeps running.
C16_DecodeFailureNoCommand ==
  [][(TickerStep /\ (undecoded \/ undecoded')) =>
       /\ tickDisplays' = 0 /\ tickClears' = 0 /\ op'["ticker"] = "none"
       /\ proc' = "running"]_vars

\* C16 amended: on such a tick no image is displayed and the process keeps
\* running; the only panel command is the clear of the stale test, issued
\* when the time since lastUpdated has reached the threshold.
C16_DecodeFailureNoDisplay ==
  [][(TickerStep /\ (undecoded \/ undecoded')) =>
       /\ tickDisplays' = 0 /\ op'["ticker"] # "display"
       /\ proc' = "running"
       /\ currentId' = currentId
       /\ (undecoded => displayedId' = displayedId)
       /\ (tickClears' # tickClears =>
             pc["ticker"] = "stale" /\ Elapsed >= Threshold)
       /\ (pc["ticker"] = "stale" /\ Elapsed < Threshold =>
             op'["ticker"] = "none")]_vars

\* A tick whose image could not be decoded has cleared the stale panel.
C16_Witness ==
  /\ undecoded /\ branch = "nofile" /\ pc["ticker"] = "restamp"
  /\ tickClears = 1 /\ tickDisplays = 0 /\ CLEAR_AFTER = 1

\* run is inside the case of a one-shot command
InOneShot ==
  /\ Len(args) > 0 /\ Head(args) \in {"clear", "current", "display"}
  /\ pc["main"] \in {"dispatch", "cmdId", "cmdImage", "epd", "ret"}

\* C20: a one-shot command ends by returning a status: 0 once its wipe or
\* display sequence has completed; 1, with no panel command issued, when
\* the id query, the fetch or the decode fails or the id argument is missing.
C20_OneShotStatus ==
  [][(InOneShot /\ proc' # "running" /\ sigCount' = sigCount) =>
       /\ proc' = "exited"
       /\ IF pc["main"] = "ret"
          THEN exitStatus' = 0
          ELSE exitStatus' = 1 /\ panel = "Asleep" /\ displayedId = ""
    ]_vars

\* C11: an idle wait is bounded: it reads the busy line as Low at most
\* MaxPolls times and then gives up (with ProtocolTimeout) rather than
\* polling on.
C11_BusyWaitBounded == polls <= MaxPolls

\* ceil(w / 8): the least n with 8 * n >= w
Ceil8(w) == CHOOSE n \in 0..w : 8 * n >= w /\ 8 * (n - 1) < w

\* C17: for every panel width the row length is ceil(W / 8) bytes, the frame
\* Convert returns has rowBytes * H bytes whatever the source image, and
\* that is 100 * 480 = 48000 bytes for the 800 by 480 panel.
C17_FrameLength ==
  converted =>
    /\ WidthByte(panelW) = Ceil8(panelW)
    /\ Len(frame) = Ceil8(panelW) * panelH
    /\ WidthByte(EPD_WIDTH) * EPD_HEIGHT = 48000

\* An image larger than the panel has been converted for a panel whose
\* width is not a multiple of 8.
C17_Witness ==
  /\ converted /\ panelW % 8 # 0 /\ panelW > 8 /\ panelH = MaxHeight
  /\ src.dx > panelW /\ src.dy > panelH /\ Len(frame) = 2 * panelH

\* Bit of the frame for the device coordinate (i, j):
\* bit 7 - i mod 8 of byte floor(i / 8) + j * rowBytes
FrameBit(col, row) ==
  BitOf(frame[(col \div 8) + row * Ceil8(panelW) + 1], 7 - (col % 8))

\* The bit values of the tones nearest to the grey level g (both when g is
\* halfway): 0 for the light tone, 1 for the dark tone
NearestBits(g) ==
  {b \in {0, 1} : IF b = 0 THEN MaxTone - g <= g ELSE g <= MaxTone - g}

\* C18: on a panel whose width is a multiple of 8 (as 800 is), for every
\* device coordinate (i, j) the frame's bit is the nearest-tone bit of the
\* source pixel at (i, j) when (i, j) lies within the image's bounds, and the
\* background bit otherwise.
C18_BitPerPixel ==
  (converted /\ panelW % 8 = 0) =>
    \A col \in 0..(panelW - 1), row \in 0..(panelH - 1) :
      IF InBounds(src, col, row)
      THEN FrameBit(col, row) \in NearestBits(Tone(src.pat, col, row))
      ELSE FrameBit(col, row) = bgColor

\* C19: for an all-light image smaller than the panel (width a multiple of
\* 8), every bit of the frame has the same value: the bits inside the
\* image's bounds equal the bits outside them.
C19_LightImageUniform ==
  (/\ converted /\ panelW % 8 = 0
   /\ src.pat \in {"white", "light"}
   /\ src.x0 = 0 /\ src.y0 = 0
   /\ src.dx > 0 /\ src.dy > 0 /\ src.dx < panelW /\ src.dy <= panelH) =>
    \A col \in 0..(panelW - 1), row \in 0..(panelH - 1) :
      FrameBit(col, row) = FrameBit(panelW - 1, panelH - 1)

\* Goroutine t sends the command of step n of its sequence in this step
\* (0: Reset, 1: Init, 2: Display | Clear, 3: Sleep)
Issues(t, n) == pc[t] = "epd" /\ at[t] = n /\ at'[t] = (n + 1) % 4

\* C21: every command of a sequence finds the panel in the state the
\* sequence Asleep, reset, initialize, display | clear, sleep, Asleep asks
\* for: reset on the sleeping panel, initialize after the reset, display or
\* clear and sleep on the initialized idle panel; and the panel is Asleep
\* whenever no displayImage / displayClear call is in progress.
C21_SequenceOrder ==
  [][/\ \A t \in Threads :
          /\ Issues(t, 0) => panel = "Asleep"
          /\ Issues(t, 1) => panel = "Reset"
          /\ Issues(t, 2) => panel = "Idle"
          /\ Issues(t, 3) => panel = "Idle"
     /\ (\A t \in Threads : ~InFlight(t)') => panel' = "Asleep"
    ]_vars

\* Control points at which a goroutine is about to read or write lastUpdated
TickerAtStamp == pc["ticker"] \in {"stale", "restamp", "update"}
SignalAtStamp == pc["signal"] = "stamp"

\* The goroutine writes lastUpdated in this step
TickerStamps ==
  pc["ticker"] \in {"restamp", "update"} /\ pc'["ticker"] # pc["ticker"]
SignalStamps == SignalAtStamp /\ pc'["signal"] # "stamp"

\* The ticker goroutine has written lastUpdated: main stamps it once, at
\* minute 0 before the goroutines start, and a tick is handled later
TickerStamped == lastUpdated > 0 /\ pc["signal"] \notin {"send", "end"}
SignalStamped == pc["signal"] \in {"send", "end"}

\* C22: once the goroutines run, lastUpdated is written by one of them only
\* (never by the tick handler and the signal handler in one execution), no
\* write of it is concurrent with a read or write of the other goroutine,
\* and currentId is written by the tick handler alone.
C22_SingleWriter ==
  [][/\ SignalStamps => ~TickerStamped /\ ~TickerAtStamp
     /\ TickerStamps => ~SignalStamped /\ ~SignalAtStamp
     /\ (pc["main"] = "waitExit" /\ currentId' # currentId) =>
          pc["ticker"] = "update"
    ]_vars

\* A step of the signal goroutine, its panel commands included
SignalGoroutine ==
  \/ SigRecv
  \/ SigStop
  \/ SigClear
  \/ SigStamp
  \/ SigSend
  \/ EpdReset("signal")
  \/ EpdInit("signal")
  \/ EpdClear("signal")
  \/ EpdSleep("signal")

\* The service with a scheduler that lets the signal goroutine and main run
\* whenever they can, and a busy line that is released after every command
\* (each panel step of the signal goroutine returns).
SpecLive == Spec /\ WF_vars(SignalGoroutine) /\ WF_vars(MainExit)

\* C23: once a termination signal is in the signals channel the process
\* terminates: the shutdown clear is made and has finished, and run returns
\* the status 0 sent on the exit channel, whatever the tick handler does.
C23_SignalTerminates ==
  (signals = 1) ~>
    (proc = "exited" /\ exitStatus = 0 /\ pc["signal"] = "end"
       /\ clearsSinceSig >= 1 /\ ~InFlight("signal"))

\* C24: the buffer Clear transmits equals, byte for byte, the frame Convert
\* returns for an image with no pixels (every bit the background tone).
C24_ClearIsBackground ==
  (converted /\ cleared # <<>> /\ (src.dx = 0 \/ src.dy = 0)) =>
    cleared = frame

MultipleOf(m, n) == \E k \in (0 - MinutesPerHour)..MinutesPerHour : m = k * n

\* C26: whatever the check frequency, receiving a ticker event ends
\* without a fault, and the handler goes on to query the id exactly when
\* the event's minute-of-hour is a multiple of the frequency.
C26_TickHandledForEveryFreq ==
  [][(pc["ticker"] = "select" /\ tickerC # NoTick /\ tickerC' = NoTick) =>
       /\ proc' = "running"
       /\ (pc'["ticker"] = "query") <=> MultipleOf(Minute(tickerC), CHECK_FREQ)
    ]_vars

====
